---- MODULE Spec2Model ----
(***************************************************************************)
(* Noisy Student self-training loop of src/noisy_student.py:               *)
(* Trainer.train drives steps rounds of {train_noisy, load teacher,        *)
(* get_pseudo_label} followed by one last train_noisy.                     *)
(*                                                                         *)
(* Accuracies and confidences are scaled to small naturals; a parameter    *)
(* state (state_dict) is represented by where it came from: the initial    *)
(* teacher, a checkpoint left in save_path by an earlier run, or the       *)
(* student of round `step` after `trained` calls of train_one_epoch.       *)
(***************************************************************************)
EXTENDS Integers, Naturals, Sequences, FiniteSets, TLC

\* ---------------------------------------------------------------- bounds
MaxSteps == 2        \* args.steps ranges over 1..MaxSteps
MaxEpochs == 4       \* args.epochs ranges over 1..MaxEpochs
MaxPatience == 2     \* args.patience ranges over 0..MaxPatience
MaxAcc == 2          \* validate() returns a top-1 in 0..MaxAcc
MaxConf == 2         \* a softmax maximum lies in 0..MaxConf
MaxThreshold == 1    \* args.threshold ranges over 1..MaxThreshold
NumLabel == 1        \* size of the 'label' split
NumUnlabel == 2      \* the 'unlabel' split has at most NumUnlabel examples
NumClasses == 2      \* classes are 0..NumClasses-1
MaxLoss == 1         \* validate() returns a loss in 0..MaxLoss
MaxWarm == 1         \* args.warm_epoch ranges over 0..MaxWarm
MaxAgain == 1        \* get_pseudo_label is called again at most MaxAgain times

Rounds == 0..MaxSteps
AccVals == 0..MaxAcc
ConfVals == 0..MaxConf
Classes == 0..(NumClasses - 1)
LossVals == 0..MaxLoss

\* the names args.scheduler selects among
SchedulerNames == {"step", "cos", "cycle"}

VARIABLES
    pc,             \* source line the script is about to execute
    ret,            \* line Trainer.train resumes at when train_noisy returns
    error,          \* the exception that ended the run, "" when none
    steps,          \* args.steps
    epochs,         \* args.epochs
    patience,       \* args.patience
    threshold,      \* args.threshold
    scheduler_name, \* args.scheduler
    warm_epoch,     \* args.warm_epoch
    metrics,        \* which (loss, top-1, top-5) results validate() can return
    unlabel_len,    \* len(self.unlabel_ds), the size of the 'unlabel' split
    step,           \* loop variable of Trainer.train
    files,          \* save_path: round index -> <<>> or <<checkpoint>>
    teacher,        \* parameter state of self.teacher
    student,        \* parameter state of self.student
    optimizer,      \* self.optimizer: the round whose student it updates
    scheduler,      \* self.scheduler: its policy, round and number of step() calls
    train_dl,       \* dataset behind self.train_dl
    pseudo_ds,      \* self.pseudo_ds
    prediction,     \* local of get_pseudo_label
    pseudo_labels,  \* local of get_pseudo_label
    indices,        \* local of get_pseudo_label
    labels,         \* local of get_pseudo_label
    cur_step,       \* parameter step of the running train_noisy call
    epoch,          \* loop variable of train_noisy
    best_epoch,     \* local of train_noisy
    best_loss,      \* local of train_noisy: <<>> is np.inf, <<l>> the loss l
    best_acc,       \* local of train_noisy
    best_acc2,      \* local of train_noisy
    early_stopping, \* local of train_noisy
    val_top1,       \* local of train_noisy: last result of validate()
    saved,          \* the last epoch body executed torch.save
    nsaves,         \* number of torch.save calls of the running pass
    passes,         \* round indices of the train_noisy calls so far
    npseudo,        \* number of get_pseudo_label calls so far
    prev_len,       \* size of the training set the previous pass iterated over
    used_cur,       \* training set the current pass iterates over
    last_out        \* teacher outputs of the get_pseudo_label call that has
                    \* just returned, <<>> once train_noisy has been called

vars == <<pc, ret, error, steps, epochs, patience, threshold, scheduler_name,
          warm_epoch, metrics, unlabel_len, step, files, teacher, student,
          optimizer, scheduler, train_dl, pseudo_ds, prediction, pseudo_labels,
          indices, labels, cur_step, epoch, best_epoch, best_loss, best_acc,
          best_acc2, early_stopping, val_top1, saved, nsaves, passes, npseudo,
          prev_len, used_cur, last_out>>

cfgVars == <<steps, epochs, patience, threshold, scheduler_name, warm_epoch,
             metrics, unlabel_len>>
labelVars == <<pseudo_ds, prediction, pseudo_labels, indices, labels>>
roundVars == <<cur_step, epoch, best_epoch, best_loss, best_acc, best_acc2,
               early_stopping, val_top1, saved, nsaves>>
objVars == <<optimizer, scheduler>>

\* ------------------------------------------------------- parameter states
InitState == [origin |-> "init", step |-> 0, trained |-> 0]
StaleState(r) == [origin |-> "stale", step |-> r, trained |-> 0]
\* line 72: Network(self.args), a newly initialised student for round r
FreshStudent(r) == [origin |-> "student", step |-> r, trained |-> 0]

\* self.optimizer and self.scheduler before init_settings has set them
NoOptimizer == [round |-> -1]
NoScheduler == [kind |-> "none", round |-> -1, nsteps |-> 0]

\* torch.optim.AdamW(self.student.parameters()) for the student of round r
NewOptimizer(r) == [round |-> r]

\* the scheduler init_settings builds on the optimizer of round r
NewScheduler(kind, r) == [kind |-> kind, round |-> r, nsteps |-> 0]

\* validate() results in which loss and top-5 carry nothing beyond top-1
PlainMetrics == {[loss |-> 0, top1 |-> v, top5 |-> v] : v \in AccVals}

\* every validate() result; top-5 is never below top-1
AllMetrics ==
    {m \in [loss : LossVals, top1 : AccVals, top5 : AccVals] : m.top5 >= m.top1}

\* the results validate() can return on the validation split of the run
ValResults(kind) == IF kind = "plain" THEN PlainMetrics ELSE AllMetrics

\* a checkpoint left under the name best_model_r.pth by an earlier run
StaleCkpt(r) == [epoch |-> 0, state_dict |-> StaleState(r)]

\* ----------------------------------------------------------------datasets
\* the 'label' split: NumLabel examples with their ground-truth labels
train_ds == [i \in 1..NumLabel |->
               [split |-> "label", index |-> i - 1, label |-> (i - 1) % NumClasses]]

\* variant of Accept: the threshold itself is accepted
AcceptAtThreshold(p, tau) == p >= tau

\* lines 146-147: the filter condition p > self.args.threshold
Accept(p, tau) == p > tau

\* indices = [i for i, p in enumerate(prediction) if p > threshold]
RECURSIVE FilterIndices(_, _, _)
FilterIndices(preds, tau, k) ==
    IF k > Len(preds) THEN <<>>
    ELSE IF Accept(preds[k], tau)
         THEN <<k - 1>> \o FilterIndices(preds, tau, k + 1)
         ELSE FilterIndices(preds, tau, k + 1)

\* variant of FilterLabels: the labels are filtered with p >= threshold
RECURSIVE FilterLabelsAtThreshold(_, _, _, _)
FilterLabelsAtThreshold(preds, labs, tau, k) ==
    IF k > Len(preds) \/ k > Len(labs) THEN <<>>
    ELSE IF AcceptAtThreshold(preds[k], tau)
         THEN <<labs[k]>> \o FilterLabelsAtThreshold(preds, labs, tau, k + 1)
         ELSE FilterLabelsAtThreshold(preds, labs, tau, k + 1)

\* labels = [l for p, l in zip(prediction, pseudo_labels) if p > threshold]
RECURSIVE FilterLabels(_, _, _, _)
FilterLabels(preds, labs, tau, k) ==
    IF k > Len(preds) \/ k > Len(labs) THEN <<>>
    ELSE IF Accept(preds[k], tau)
         THEN <<labs[k]>> \o FilterLabels(preds, labs, tau, k + 1)
         ELSE FilterLabels(preds, labs, tau, k + 1)

\* CIFAR10(split='pseudo', indices=indices, labels=labels)
PseudoDataset(idx, labs) ==
    [k \in 1..Len(idx) |-> [split |-> "pseudo", index |-> idx[k], label |-> labs[k]]]

\* variant of ConcatDataset: the labeled operand is lost
ConcatPseudoOnly(a, b) == b

\* self.train_ds + self.pseudo_ds
ConcatDataset(a, b) == a \o b

\* variant of NewDataset: the partition is appended to the set in use
NewDatasetCumulative(cur, labeled, pseudo) == ConcatDataset(cur, pseudo)

\* line 150: self.new_ds is built from self.train_ds and self.pseudo_ds; the
\* dataset cur behind self.train_dl is not an operand
NewDataset(cur, labeled, pseudo) == ConcatDataset(labeled, pseudo)

\* ------------------------------------------------------------------- Init
\* Trainer(args) has been constructed with the configuration args
Constructed ==
    /\ pc = "line64"
    /\ ret = ""
    /\ error = ""
    /\ step = 0
    /\ teacher = InitState
    /\ student = InitState
    /\ optimizer = NoOptimizer
    /\ scheduler = NoScheduler
    /\ train_dl = train_ds
    /\ pseudo_ds = <<>>
    /\ prediction = <<>>
    /\ pseudo_labels = <<>>
    /\ indices = <<>>
    /\ labels = <<>>
    /\ cur_step = 0
    /\ epoch = 0
    /\ best_epoch = 0
    /\ best_loss = <<>>
    /\ best_acc = 0
    /\ best_acc2 = 0
    /\ early_stopping = 0
    /\ val_top1 = 0
    /\ saved = FALSE
    /\ nsaves = 0
    /\ passes = <<>>
    /\ npseudo = 0
    /\ prev_len = 0
    /\ used_cur = <<>>
    /\ last_out = <<>>

\* save_path as os.makedirs(exist_ok=True) leaves it: without checkpoints
EmptyPath == [r \in Rounds |-> <<>>]

\* save_path still holding the checkpoints of an earlier run
StalePath == [r \in Rounds |-> <<StaleCkpt(r)>>]

\* runs over every epoch budget and patience, with a pool of one example,
\* the fixed-step scheduler and plain validation results; save_path is empty
\* or holds the checkpoints of an earlier run
Init ==
    /\ files \in {EmptyPath, StalePath}
    /\ steps \in 1..MaxSteps
    /\ epochs \in 1..MaxEpochs
    /\ patience \in 0..MaxPatience
    /\ threshold \in 1..MaxThreshold
    /\ scheduler_name = "step"
    /\ warm_epoch = 0
    /\ metrics = "plain"
    /\ unlabel_len = 1
    /\ Constructed

\* runs over every pool of up to NumUnlabel examples, with a budget of one
\* epoch and an empty save_path
InitPool ==
    /\ files = EmptyPath
    /\ steps \in 1..MaxSteps
    /\ epochs = 1
    /\ patience = 1
    /\ threshold \in 1..MaxThreshold
    /\ scheduler_name = "step"
    /\ warm_epoch = 0
    /\ metrics = "plain"
    /\ unlabel_len \in 1..NumUnlabel
    /\ Constructed

\* runs of one round over every scheduler name, warm-up count, epoch budget,
\* patience and validation result, with a pool of one example
InitRound ==
    /\ files \in {EmptyPath, StalePath}
    /\ steps = 1
    /\ epochs \in 1..MaxEpochs
    /\ patience \in 0..MaxPatience
    /\ threshold = 1
    /\ scheduler_name \in SchedulerNames
    /\ warm_epoch \in IF scheduler_name = "cos" THEN 0..MaxWarm ELSE {0}
    /\ metrics = "all"
    /\ unlabel_len = 1
    /\ Constructed

\* runs over every number of rounds, epoch budget and patience, started on
\* an empty save_path with a pool of one example
InitFair ==
    /\ files = EmptyPath
    /\ steps \in 1..MaxSteps
    /\ epochs \in 1..MaxEpochs
    /\ patience \in 0..MaxPatience
    /\ threshold = 1
    /\ scheduler_name = "step"
    /\ warm_epoch = 0
    /\ metrics = "plain"
    /\ unlabel_len = 1
    /\ Constructed

\* ------------------------------------------------------------ train_noisy
\* lines 55-57: OneCycleLR is built with steps_per_epoch=iter_per_epoch, a
\* name the module binds nowhere, so the 'cycle' branch raises NameError
SchedulerBuilds(kind) == kind \in {"step", "cos"}

\* lines 70-81 with init_settings (45-57): new student and optimizer, then
\* the scheduler args.scheduler names, then the early-stopping locals
TrainNoisyBegin(s, r) ==
    /\ student' = FreshStudent(s)
    /\ optimizer' = NewOptimizer(s)
    /\ passes' = Append(passes, s)
    /\ prev_len' = Len(used_cur)
    /\ used_cur' = train_dl
    /\ last_out' = <<>>
    /\ IF SchedulerBuilds(scheduler_name)
       THEN /\ scheduler' = NewScheduler(scheduler_name, s)
            /\ cur_step' = s
            /\ ret' = r
            /\ epoch' = 0
            /\ best_epoch' = 0
            /\ best_loss' = <<>>
            /\ best_acc' = 0
            /\ best_acc2' = 0
            /\ early_stopping' = 0
            /\ val_top1' = 0
            /\ saved' = FALSE
            /\ nsaves' = 0
            /\ pc' = IF epochs > 0 THEN "line83" ELSE "line129"
            /\ UNCHANGED error
       ELSE /\ pc' = "aborted"
            /\ error' = "NameError"
            /\ UNCHANGED <<scheduler, ret, roundVars>>
    /\ UNCHANGED <<cfgVars, step, files, teacher, train_dl, labelVars, npseudo>>

\* line 64: self.train_noisy(step) inside the loop of Trainer.train
TrainNoisyCall ==
    /\ pc = "line64"
    /\ TrainNoisyBegin(step, "line65")

\* line 68: self.train_noisy(step+1) after the loop
TrainNoisyFinal ==
    /\ pc = "line68"
    /\ TrainNoisyBegin(step + 1, "done")

\* variant of Improved: a tie counts as an improvement
ImprovedOrTied(v, best) == v >= best

\* line 106: if val_top1 > best_acc
Improved(v, best) == v > best

\* variant of BestModelFile: every round saves under one name
BestModelShared(s) == 0

\* line 117: f'best_model_{step}.pth', the file of the round with index s
BestModelFile(s) == s

\* lines 113-117: the content torch.save writes
Checkpoint(e, sd) == [epoch |-> e, state_dict |-> sd]

\* variant of StopEarly: the loop breaks one epoch late
StopEarlyLate(es, p) == es = p + 1

\* line 121: if early_stopping == args.patience: break
StopEarly(es, p) == es = p

\* lines 85-87: only the cosine scheduler is stepped, and only in an epoch
\* whose index is above args.warm_epoch
StepsScheduler(kind, e, warm) == kind = "cos" /\ e > warm

\* lines 83-127: one iteration of the epoch loop; m is what validate() returns
Epoch(m) ==
    /\ pc = "line83"
    /\ scheduler' = IF StepsScheduler(scheduler_name, epoch, warm_epoch)
                    THEN [scheduler EXCEPT !.nsteps = @ + 1]
                    ELSE scheduler
    /\ student' = [student EXCEPT !.trained = @ + 1]
    /\ val_top1' = m.top1
    /\ IF Improved(m.top1, best_acc)
       THEN /\ early_stopping' = 0
            /\ best_epoch' = epoch
            /\ best_loss' = <<m.loss>>
            /\ best_acc' = m.top1
            /\ best_acc2' = m.top5
            /\ files' = [files EXCEPT ![BestModelFile(cur_step)] =
                                            <<Checkpoint(epoch, student')>>]
            /\ saved' = TRUE
            /\ nsaves' = nsaves + 1
       ELSE /\ early_stopping' = early_stopping + 1
            /\ saved' = FALSE
            /\ UNCHANGED <<best_epoch, best_loss, best_acc, best_acc2, files, nsaves>>
    /\ IF StopEarly(early_stopping', patience) \/ epoch + 1 >= epochs
       THEN /\ pc' = "line129"
            /\ epoch' = epoch
       ELSE /\ pc' = "line83"
            /\ epoch' = epoch + 1
    /\ UNCHANGED <<ret, error, cfgVars, step, teacher, optimizer, train_dl,
                   labelVars, cur_step, passes, npseudo, prev_len, used_cur,
                   last_out>>

\* lines 129-131: report the best metrics and return to Trainer.train; the
\* locals of train_noisy go out of scope
TrainNoisyReturn ==
    /\ pc = "line129"
    /\ pc' = ret
    /\ ret' = ""
    /\ cur_step' = 0
    /\ epoch' = 0
    /\ best_epoch' = 0
    /\ best_loss' = <<>>
    /\ best_acc' = 0
    /\ best_acc2' = 0
    /\ early_stopping' = 0
    /\ val_top1' = 0
    /\ saved' = FALSE
    /\ nsaves' = 0
    /\ UNCHANGED <<error, cfgVars, step, files, teacher, student, objVars, train_dl,
                   labelVars, passes, npseudo, prev_len, used_cur,
                   last_out>>

\* ------------------------------------------------------------------ train
\* variant of LoadTeacher: a missing file is skipped and the run goes on
LoadTeacherSkipMissing ==
    /\ pc = "line65"
    /\ pc' = "line67"
    /\ teacher' = IF files[step] = <<>> THEN teacher ELSE files[step][1].state_dict
    /\ UNCHANGED <<ret, error, cfgVars, step, files, student, objVars, train_dl,
                   labelVars, roundVars, passes, npseudo, prev_len, used_cur,
                   last_out>>

\* lines 65-66: torch.load of best_model_{step}.pth, teacher.load_state_dict
LoadTeacher ==
    /\ pc = "line65"
    /\ IF files[step] = <<>>
       THEN /\ pc' = "aborted"
            /\ error' = "FileNotFoundError"
            /\ UNCHANGED teacher
       ELSE /\ pc' = "line67"
            /\ teacher' = files[step][1].state_dict
            /\ UNCHANGED error
    /\ UNCHANGED <<ret, cfgVars, step, files, student, objVars, train_dl,
                   labelVars, roundVars, passes, npseudo, prev_len, used_cur,
                   last_out>>

\* variant of NoGradForward: the forward passes update the parameters
GradForward(t) == [t EXCEPT !.trained = @ + 1]

\* lines 134-142: self.teacher.eval() and forward passes under
\* torch.no_grad() leave the parameters of the teacher as they are
NoGradForward(t) == t

\* lines 134-147: the teacher scores the pool in order and the threshold
\* filters it; preds and labs are its max_probs and argmax per example
PseudoInfer(preds, labs) ==
    /\ pc = "line67"
    /\ teacher' = NoGradForward(teacher)
    /\ prediction' = preds
    /\ pseudo_labels' = labs
    /\ indices' = FilterIndices(preds, threshold, 1)
    /\ labels' = FilterLabels(preds, labs, threshold, 1)
    /\ pc' = "line149"
    /\ UNCHANGED <<ret, error, cfgVars, step, files, student, objVars,
                   train_dl, pseudo_ds, roundVars, passes, npseudo, prev_len, used_cur,
                   last_out>>

\* lines 149 and 151 without the dataset line 150 builds, then the return
\* and the loop header at line 63
MaterializeRest ==
    /\ pc = "line149"
    /\ pseudo_ds' = PseudoDataset(indices, labels)
    /\ prediction' = <<>>
    /\ pseudo_labels' = <<>>
    /\ indices' = <<>>
    /\ labels' = <<>>
    /\ npseudo' = npseudo + 1
    /\ last_out' = <<prediction, pseudo_labels>>
    /\ IF step + 1 < steps
       THEN /\ step' = step + 1
            /\ pc' = "line64"
       ELSE /\ step' = step
            /\ pc' = "line68"
    /\ UNCHANGED <<ret, error, cfgVars, files, teacher, student, objVars,
                   roundVars, passes, prev_len, used_cur>>

\* lines 149-151, return (the locals go out of scope), then the next
\* iteration of the loop at line 63
PseudoMaterialize ==
    /\ MaterializeRest
    /\ train_dl' = NewDataset(train_dl, train_ds, pseudo_ds')

\* the teacher, its parameters unchanged and in eval mode, scores the
\* unchanged pool, read in pool order, as it did in the call before
SameScores(out) == out

\* get_pseudo_label called once more right after it returned (lines 133-151
\* as a whole): the teacher and the pool are those of the call before
PseudoLabelAgain ==
    /\ pc \in {"line64", "line68"}
    /\ last_out # <<>>
    /\ npseudo < steps + MaxAgain
    /\ LET out == SameScores(last_out)
           idx == FilterIndices(out[1], threshold, 1)
           labs == FilterLabels(out[1], out[2], threshold, 1)
       IN  /\ pseudo_ds' = PseudoDataset(idx, labs)
           /\ train_dl' = NewDataset(train_dl, train_ds, pseudo_ds')
           /\ last_out' = out
    /\ teacher' = NoGradForward(teacher)
    /\ npseudo' = npseudo + 1
    /\ UNCHANGED <<pc, ret, error, cfgVars, step, files, student, objVars,
                   prediction, pseudo_labels, indices, labels, roundVars, passes,
                   prev_len, used_cur>>

\* one iteration of the epoch loop, for every top-1 validate() can return
RunEpoch == pc = "line83" /\ \E m \in ValResults(metrics) : Epoch(m)

\* the inference pass, for every output the teacher can give on the pool
ScorePool ==
    pc = "line67" /\ \E preds \in [1..unlabel_len -> ConfVals],
                       labs \in [1..unlabel_len -> Classes] :
                       PseudoInfer(preds, labs)

Next ==
    \/ TrainNoisyCall
    \/ TrainNoisyFinal
    \/ RunEpoch
    \/ TrainNoisyReturn
    \/ LoadTeacher
    \/ ScorePool
    \/ PseudoMaterialize

Spec == Init /\ [][Next]_vars

SpecPool == InitPool /\ [][Next]_vars

SpecRound == InitRound /\ [][Next]_vars

\* the script is one sequential thread and every call it makes returns, so
\* a step that is enabled is eventually taken
SpecFair == InitFair /\ [][Next]_vars /\ WF_vars(Next)

\* Trainer.train with a caller that may repeat get_pseudo_label
NextAgain ==
    \/ Next
    \/ PseudoLabelAgain

SpecAgain == InitPool /\ [][NextAgain]_vars

TypeOK ==
    /\ pc \in {"line64", "line65", "line67", "line149", "line68", "done", "line83",
               "line129", "aborted"}
    /\ step \in Rounds
    /\ \A r \in Rounds : Len(files[r]) <= 1

\* ================================================================ claims
Min(a, b) == IF a < b THEN a ELSE b

\* C1: the training set of pass r+1 is never smaller than the
\* training set of pass r.
C1_NeverShrinks ==
    Len(passes) >= 2 => Len(used_cur) >= prev_len

\* C2: the pseudo-labeling step of round r makes the training set
\* of pass r+1 out of the training set of pass r and the partition accepted
\* in round r, so that the size grows by the number accepted.
C2_Cumulative ==
    [][pc = "line149" =>
          /\ train_dl' = train_dl \o pseudo_ds'
          /\ Len(train_dl') = Len(train_dl) + Len(pseudo_ds')]_vars

\* C3 as stated: a run performs the training passes 0, 1, ..., steps in that
\* order and steps pseudo-labeling passes, pass r of pseudo-labeling lying
\* between training passes r and r+1.
C3_AllPasses ==
    /\ npseudo <= Len(passes)
    /\ Len(passes) <= npseudo + 1
    /\ \A k \in 1..Len(passes) : passes[k] = k - 1
    /\ pc \in {"done", "aborted"} =>
           /\ Len(passes) = steps + 1
           /\ npseudo = steps

\* C4 as stated: a training pass with at least one epoch has written its
\* checkpoint when it returns, so the load that follows finds the file.
C4_AlwaysWrites ==
    /\ (pc = "line129" /\ epochs >= 1) => nsaves >= 1
    /\ pc = "line65" => files[step] # <<>>

\* C5 as stated: when training pass r hands over to the teacher, the file of
\* round r holds what the last torch.save of this pass stored, the student of
\* round r after its best epoch, and during the pseudo-labeling step of round
\* r the teacher holds that state and no other.
C5_TeacherIsBestOfRound ==
    /\ (pc = "line129" /\ ret = "line65") =>
           /\ nsaves >= 1
           /\ files[cur_step] =
                  <<[epoch |-> best_epoch,
                     state_dict |-> [origin |-> "student", step |-> cur_step,
                                     trained |-> best_epoch + 1]]>>
    /\ pc \in {"line67", "line149"} =>
           /\ files[step] # <<>>
           /\ teacher = files[step][1].state_dict
           /\ teacher.origin = "student"
           /\ teacher.step = step

\* C6: an unlabeled example is accepted exactly when its confidence is
\* strictly above the threshold, with its pool position and the label at
\* that position, and every such example is accepted.
C6_ThresholdExclusive ==
    pc = "line149" =>
        /\ \A i \in 1..unlabel_len :
               (\E k \in 1..Len(indices) : indices[k] = i - 1) <=> prediction[i] > threshold
        /\ Len(indices) = Cardinality({i \in 1..unlabel_len : prediction[i] > threshold})
        /\ Len(labels) = Len(indices)

C6_Witness ==
    /\ pc = "line149"
    /\ unlabel_len = 2
    /\ prediction[1] = threshold
    /\ prediction[2] > threshold
    /\ indices = <<1>>

\* C7 as stated: the epoch loop ends after epoch index best_epoch + patience,
\* or after the last epoch of the budget if that comes first.
C7_HaltsAtBestPlusPatience ==
    pc = "line129" => epoch = Min(best_epoch + patience, epochs - 1)

\* C8: an epoch writes the checkpoint exactly when its validation top-1 is
\* strictly above the best of the round so far; a write raises the best
\* strictly, and an epoch without a write leaves every file as it was and
\* adds one to the early-stop counter.
C8_WriteIffStrictlyBetter ==
    [][pc = "line83" =>
          /\ saved' <=> val_top1' > best_acc
          /\ files' # files <=> val_top1' > best_acc
          /\ saved' => /\ best_acc' = val_top1'
                       /\ best_acc' > best_acc
                       /\ files'[cur_step] = <<[epoch |-> epoch, state_dict |-> student']>>
                       /\ nsaves' = nsaves + 1
          /\ ~saved' => /\ files' = files
                        /\ best_acc' = best_acc
                        /\ nsaves' = nsaves
                        /\ early_stopping' = early_stopping + 1]_vars

C8_Witness ==
    /\ pc \in {"line83", "line129"}
    /\ nsaves = 2
    /\ ~saved
    /\ val_top1 = best_acc
    /\ early_stopping = 1
    /\ files[cur_step] # <<>>
    /\ files[cur_step][1].epoch = best_epoch
    /\ best_epoch = 1
    /\ epoch = 2

\* C9: when round r accepts nothing, the training set of pass r+1
\* is the training set of pass r.
C9_EmptyKeepsPrevious ==
    [][(pc = "line149" /\ indices = <<>>) =>
          /\ pseudo_ds' = <<>>
          /\ train_dl' = train_dl]_vars

\* C10: a load that finds no file for the round ends the run there: the
\* teacher, the training set and the pseudo partition stay as they were, no
\* pseudo-labeling pass and no training pass follows.
C10_MissingCheckpointAborts ==
    [][/\ (pc = "line65" /\ files[step] = <<>>) =>
              /\ pc' = "aborted"
              /\ error' = "FileNotFoundError"
              /\ teacher' = teacher
              /\ train_dl' = train_dl
              /\ pseudo_ds' = pseudo_ds
              /\ npseudo' = npseudo
              /\ passes' = passes
       /\ pc # "aborted"]_vars

C10_Witness ==
    /\ pc = "aborted"
    /\ error = "FileNotFoundError"
    /\ steps = 2
    /\ passes = <<0, 1>>
    /\ npseudo = 1
    /\ files[1] = <<>>
    /\ teacher = [origin |-> "student", step |-> 0, trained |-> 1]

\* C11: every call of train_noisy builds a new student, a new optimizer and
\* a new scheduler for its round and resets best loss = inf, best top-1 = 0,
\* best top-5 = 0, best epoch = 0 and early-stop counter = 0, whatever the
\* pass before it left behind.
C11_FreshRound ==
    [][(pc = "line64" \/ pc = "line68") =>
          /\ student' = [origin |-> "student", step |-> Len(passes), trained |-> 0]
          /\ optimizer' = [round |-> Len(passes)]
          /\ scheduler' = [kind |-> scheduler_name, round |-> Len(passes),
                           nsteps |-> 0]
          /\ cur_step' = Len(passes)
          /\ epoch' = 0
          /\ best_epoch' = 0
          /\ best_loss' = <<>>
          /\ best_acc' = 0
          /\ best_acc2' = 0
          /\ early_stopping' = 0]_vars

\* C12: a pseudo-labeling pass leaves the teacher's parameters, the student,
\* the optimizer and scheduler, the unlabeled pool, the validation results
\* and every checkpoint file as they were; it changes only its own locals,
\* self.pseudo_ds and the dataset behind self.train_dl.
C12_ReadOnly ==
    [][(pc = "line67" \/ pc = "line149") =>
          /\ teacher' = teacher
          /\ student' = student
          /\ optimizer' = optimizer
          /\ scheduler' = scheduler
          /\ files' = files
          /\ unlabel_len' = unlabel_len
          /\ metrics' = metrics
          /\ passes' = passes]_vars

C12_Witness ==
    /\ pc = "line68"
    /\ npseudo = 2
    /\ teacher = [origin |-> "student", step |-> 1, trained |-> 1]
    /\ student = teacher
    /\ files[0] # <<>>
    /\ files[1] # <<>>
    /\ Len(pseudo_ds) = 1
    /\ Len(train_dl) = Len(train_ds) + 1
    /\ unlabel_len = NumUnlabel

\* the file of round r holds a checkpoint that training pass r wrote
WrittenBy(r) ==
    /\ Len(files[r]) = 1
    /\ files[r][1].state_dict.origin = "student"
    /\ files[r][1].state_dict.step = r

\* C13: a step changes a checkpoint file only inside training pass r and
\* only the file of index r, so the files of rounds 0..r-1 stay as they are
\* in every later round; a pass that improved at least once ends with its
\* own checkpoint in its file, and when the run completes there is exactly
\* one file for every round before the last, and for the last round too if
\* it improved.
C13_OnlyOwnFile ==
    [][/\ \A r \in Rounds :
             files'[r] # files[r] =>
                 /\ pc = "line83"
                 /\ r = passes[Len(passes)]
                 /\ files'[r] = <<[epoch |-> epoch, state_dict |-> student']>>
       /\ \A r \in Rounds :
             (Len(passes) >= 1 /\ r < passes[Len(passes)]) => files'[r] = files[r]
       /\ (pc = "line129" /\ nsaves >= 1) => WrittenBy(cur_step)
       /\ pc' = "done" =>
             /\ \A r \in 0..(steps - 1) : Len(files'[r]) = 1
             /\ nsaves >= 1 => WrittenBy(steps)]_vars

C13_Witness ==
    /\ pc = "done"
    /\ steps = 2
    /\ WrittenBy(0) /\ WrittenBy(1) /\ WrittenBy(2)
    /\ files[0][1].epoch = 0
    /\ files[1][1].epoch = 1
    /\ files[2][1].epoch = 2

\* C14: get_pseudo_label run again on the unchanged teacher and pool accepts
\* the same (index, label) pairs and builds the same training set: the
\* second call leaves self.pseudo_ds, the dataset behind self.train_dl and
\* everything else as the first call left them.
C14_Idempotent ==
    [][(pc \in {"line64", "line68"} /\ npseudo' = npseudo + 1) =>
          /\ pseudo_ds' = pseudo_ds
          /\ train_dl' = train_dl
          /\ teacher' = teacher
          /\ files' = files
          /\ pc' = pc
          /\ step' = step]_vars

C14_Witness ==
    /\ pc = "line64"
    /\ npseudo = 2
    /\ passes = <<0>>
    /\ unlabel_len = NumUnlabel
    /\ Len(pseudo_ds) = 1
    /\ pseudo_ds[1].index = 1
    /\ train_dl = train_ds \o pseudo_ds

\* C15: for each of the three scheduler names a call of train_noisy builds
\* the scheduler of that name and enters its first epoch, and every epoch
\* advances the scheduler by one step, except that the cosine scheduler is
\* left alone in the epochs up to the warm-up count.
C15_SchedulerAdvances ==
    [][/\ (pc = "line64" \/ pc = "line68") =>
             /\ pc' = "line83"
             /\ scheduler'.kind = scheduler_name
             /\ scheduler'.nsteps = 0
       /\ pc = "line83" =>
             scheduler'.nsteps =
                 IF scheduler_name = "cos" /\ epoch <= warm_epoch
                 THEN scheduler.nsteps
                 ELSE scheduler.nsteps + 1]_vars

\* C16: when the filter of get_pseudo_label has run, indices and labels have
\* the same length, indices is strictly increasing, every entry of it is a
\* position 0..len-1 of the pool, and labels[k] is the class the teacher
\* gave to the pool example at position indices[k].
C16_AlignedOutput ==
    pc = "line149" =>
        /\ Len(indices) = Len(labels)
        /\ \A k \in 1..Len(indices) :
              /\ indices[k] \in 0..(unlabel_len - 1)
              /\ k < Len(indices) => indices[k] < indices[k + 1]
              /\ k <= Len(labels) => labels[k] = pseudo_labels[indices[k] + 1]

C16_Witness ==
    /\ pc = "line149"
    /\ unlabel_len = 2
    /\ prediction = <<1, 2>>
    /\ pseudo_labels = <<0, 1>>
    /\ indices = <<1>>
    /\ labels = <<1>>

\* C17: the epoch loop of a pass goes on after an epoch exactly when the
\* early-stop counter differs from P and fewer than E epochs have run, so a
\* pass never runs more than E epochs and always reaches its end; the run
\* eventually stops, and it stops after train_noisy has been called for
\* 0..R in order unless a pass left no checkpoint for the load that follows
\* it.
C17_Terminates ==
    /\ [][pc = "line83" =>
            /\ (pc' = "line129") <=> (early_stopping' = patience \/ epoch + 1 = epochs)
            /\ (pc' = "line83") <=> (early_stopping' # patience /\ epoch + 1 < epochs)
            /\ student'.trained <= epochs]_vars
    /\ (pc = "line83") ~> (pc = "line129")
    /\ <>(pc = "done" \/ pc = "aborted")
    /\ [](pc = "aborted" => error = "FileNotFoundError" /\ files[step] = <<>>)
    /\ [](pc = "done" => passes = [i \in 1..(steps + 1) |-> i - 1])

C17_Witness ==
    /\ pc = "done"
    /\ steps = 2
    /\ passes = <<0, 1, 2>>
    /\ epochs = 4
    /\ patience = 2
    /\ student.trained = 4
    /\ files[2] # <<>>
    /\ files[2][1].epoch = 2

\* C18: after every epoch, for every patience P >= 0, the early-stop counter
\* lies in 0..P and is the number of epochs run since the last improving
\* epoch of the pass (since its start if none improved), and the loop stops
\* whenever the counter has come to P.
C18_CounterWithinPatience ==
    [][pc = "line83" =>
          /\ early_stopping' \in 0..patience
          /\ early_stopping' = IF nsaves' = 0 THEN epoch + 1 ELSE epoch - best_epoch'
          /\ early_stopping' >= patience => pc' = "line129"]_vars

Max(a, b) == IF a > b THEN a ELSE b

\* C19: in every epoch the best top-1 becomes the larger of itself and the
\* new validation top-1; a strictly larger result makes this epoch the best
\* epoch and puts this epoch's checkpoint in the round's file, while a result
\* that ties or falls below the best leaves best epoch, best loss, best
\* top-5 and the file alone; so a pass that wrote a checkpoint ends with the
\* file's epoch index equal to best_epoch, the earliest epoch that reached
\* the maximum, and with the parameters as they were after that epoch.
C19_EarliestBest ==
    [][pc = "line83" =>
          /\ best_acc' = Max(best_acc, val_top1')
          /\ val_top1' > best_acc =>
                /\ best_epoch' = epoch
                /\ files'[cur_step] = <<[epoch |-> epoch, state_dict |-> student']>>
          /\ val_top1' <= best_acc =>
                /\ best_epoch' = best_epoch
                /\ best_loss' = best_loss
                /\ best_acc2' = best_acc2
                /\ files' = files
          /\ (pc' = "line129" /\ nsaves' >= 1) =>
                /\ files'[cur_step][1].epoch = best_epoch'
                /\ files'[cur_step][1].state_dict =
                       [origin |-> "student", step |-> cur_step,
                        trained |-> best_epoch' + 1]
                /\ best_epoch' <= epoch
                /\ val_top1' <= best_acc']_vars

C19_Witness ==
    /\ pc = "line129"
    /\ nsaves = 2
    /\ epoch = 3
    /\ best_epoch = 1
    /\ best_acc = 2
    /\ val_top1 = 2
    /\ best_loss = <<1>>
    /\ files[cur_step][1].epoch = 1
    /\ early_stopping = 2

\* C20: every training pass iterates over a set whose first entries are the
\* examples of the 'label' split with their own labels, and every
\* pseudo-labeling pass scores each of the len(unlabel_ds) pool examples,
\* whatever the rounds before it accepted; the size of the pool never
\* changes.
C20_LabeledKeptPoolWhole ==
    /\ Len(passes) >= 1 =>
          /\ Len(used_cur) >= NumLabel
          /\ \A i \in 1..NumLabel :
                used_cur[i] = [split |-> "label", index |-> i - 1,
                               label |-> (i - 1) % NumClasses]
    /\ pc = "line149" =>
          /\ Len(prediction) = unlabel_len
          /\ Len(pseudo_labels) = unlabel_len
    /\ unlabel_len \in 1..NumUnlabel
    /\ Len(pseudo_ds) <= unlabel_len

C20_Witness ==
    /\ pc = "line149"
    /\ npseudo = 1
    /\ passes = <<0, 1>>
    /\ unlabel_len = 2
    /\ Len(pseudo_ds) = 2
    /\ Len(used_cur) = NumLabel + 2
    /\ Len(prediction) = 2
    /\ indices = <<>>

====
